---- MODULE Spec2Model ----
(***************************************************************************)
(* Model of ci/fetch_pysteps_data.py: the script that parses one           *)
(* positional argument, downloads the pysteps data into that directory     *)
(* with force=True and then writes a pystepsrc pointing at it.             *)
(*                                                                         *)
(* The file system the script acts on is part of the state: one directory  *)
(* tree per destination path and the single pystepsrc record.  Successive  *)
(* invocations of the script (separate processes, one after the other)     *)
(* are modelled by the action Invoke.                                      *)
(***************************************************************************)
EXTENDS Integers, Sequences, FiniteSets

\* ------------------------------------------------------------------ bounds
MaxRuns == 2
MaxArgs == 2

\* --------------------------------------------------------------- constants
\* Process exit statuses of the interpreter.
SuccessExit == 0
ErrorExit == 1
UsageExit == 2

\* Destination directories an invocation can name.
Paths == {"p1", "p2"}
\* Command-line tokens: a path, the help flag, an option the parser lacks.
Tokens == Paths \cup {"-h", "--bogus"}
Argvs == UNION {[1..n -> Tokens] : n \in 0..MaxArgs}

\* The two calls of the script body, as positions of the running process.
Steps == {"DOWNLOADING", "CONFIGURING"}
Terminal == {"DONE", "FAILED", "HELP"}

\* State of the reference dataset's files in a directory, and whether an
\* unrelated file (a marker) lies beside them.
RefStates == {"absent", "partial", "stale", "fresh"}
Trees == [ref : RefStates, marker : BOOLEAN]
Complete(t) == t.ref \in {"stale", "fresh"}

VARIABLES
    pc,              \* position of the current process
    argv,            \* the argument list parse_args read, << >> before
    parsed,          \* how parse_args ended: "none" before it, "ok", "error", "help"
    dest,            \* args.dest_dir once parsed, "" before
    exitStatus,      \* << >> while running, <<code>> once exited
    tree,            \* [Paths -> Trees]: contents of each directory
    config,          \* the pystepsrc record: "none", "corrupt" or a path
    forceKeepsExtra, \* whether the library's forced download keeps unrelated files
    run,             \* number of the current invocation
    calls,           \* [Steps -> Nat]: calls of each step made by this run
    result,          \* [Steps -> {"none","ok","failed"}]: how each ended
    treeAtStart,     \* tree when this run started
    configAtStart,   \* config when this run started
    prev,            \* <<dest, ref state, config>> a preceding successful run left
    acqFailedSince   \* [Paths -> BOOLEAN]: a download into it failed since the last good one

vars == <<pc, argv, parsed, dest, exitStatus, tree, config, forceKeepsExtra, run,
          calls, result, treeAtStart, configAtStart, prev, acqFailedSince>>

\* ----------------------------------------------------------------- parsing
HasHelp(args) == \E i \in 1..Len(args) : args[i] = "-h"
HasUnknownOption(args) == \E i \in 1..Len(args) : args[i] = "--bogus"

\* Variant: the positional made optional, with a default directory.
ParseArgsDefaultDest(args) ==
    IF HasHelp(args) THEN [kind |-> "help", dest_dir |-> ""]
    ELSE IF HasUnknownOption(args) \/ Len(args) > 1
         THEN [kind |-> "error", dest_dir |-> ""]
         ELSE [kind |-> "ok", dest_dir |-> IF Len(args) = 1 THEN args[1] ELSE "p1"]

\* parser.parse_args(): -h prints the help and exits 0 as soon as it is met;
\* an unrecognised option or a number of positionals other than one is an
\* error (exit status 2); otherwise dest_dir is the one positional.
ParseArgs(args) ==
    IF HasHelp(args) THEN [kind |-> "help", dest_dir |-> ""]
    ELSE IF HasUnknownOption(args) \/ Len(args) # 1
         THEN [kind |-> "error", dest_dir |-> ""]
         ELSE [kind |-> "ok", dest_dir |-> args[1]]

\* ------------------------------------------------------------- script body
\* Variants: the two calls exchanged; the download call left out.
StepOrderSwapped == <<"CONFIGURING", "DOWNLOADING">>
StepOrderNoDownload == <<"CONFIGURING">>

\* The statements after parse_args, in program order.
StepOrder == <<"DOWNLOADING", "CONFIGURING">>

\* The statement that follows step s, or falling off the end of the script.
NextStep(s) ==
    LET i == CHOOSE k \in 1..Len(StepOrder) : StepOrder[k] = s
    IN  IF i < Len(StepOrder) THEN StepOrder[i + 1] ELSE "DONE"

FirstStep == IF Len(StepOrder) > 0 THEN StepOrder[1] ELSE "DONE"

\* Variants: a call given a directory other than the parsed one.
DownloadDirOther == CHOOSE p \in Paths : p # dest
ConfigDirOther == CHOOSE p \in Paths : p # dest

\* The directory argument of the two calls.
DownloadDir == dest
ConfigDir == dest

\* Variants: the exception of a call caught and ignored, or the call retried.
OnDownloadErrorIgnored == NextStep("DOWNLOADING")
OnDownloadErrorRetry == "DOWNLOADING"
OnConfigErrorIgnored == NextStep("CONFIGURING")

\* Neither call is wrapped in a handler: an exception ends the process.
OnDownloadError == "FAILED"
OnConfigError == "FAILED"

\* Move the process to position next: entering a step calls it, reaching
\* a terminal position exits, with status failcode when it is FAILED.
Goto(next, failcode) ==
    /\ pc' = next
    /\ calls' = IF next \in Steps THEN [calls EXCEPT ![next] = @ + 1] ELSE calls
    /\ exitStatus' = IF next = "FAILED" THEN <<failcode>>
                     ELSE IF next \in Terminal THEN <<SuccessExit>> ELSE << >>

\* --------------------------------------------------------------- the state
NoCalls == [s \in Steps |-> 0]
NoResults == [s \in Steps |-> "none"]

Init ==
    /\ pc = "START"
    /\ argv = << >>
    /\ parsed = "none"
    /\ dest = ""
    /\ exitStatus = << >>
    /\ tree \in [Paths -> Trees]
    /\ config = "none"
    /\ forceKeepsExtra \in BOOLEAN
    /\ run = 1
    /\ calls = NoCalls
    /\ result = NoResults
    /\ treeAtStart = tree
    /\ configAtStart = config
    /\ prev = << >>
    /\ acqFailedSince = [p \in Paths |-> FALSE]

\* args = parser.parse_args(), for any argument list.
Parse ==
    /\ pc = "START"
    /\ \E args \in Argvs :
       LET a == ParseArgs(args)
       IN  /\ argv' = args
           /\ parsed' = a.kind
           /\ dest' = a.dest_dir
           /\ CASE a.kind = "help" -> Goto("HELP", SuccessExit)
                [] a.kind = "error" -> Goto("FAILED", UsageExit)
                [] OTHER -> Goto(FirstStep, ErrorExit)
    /\ UNCHANGED <<tree, config, forceKeepsExtra, run, result,
                   treeAtStart, configAtStart, prev, acqFailedSince>>

\* What a forced download that returns normally leaves in directory t: the
\* reference files, freshly written; unrelated files as the library decides.
Fetched(t) == [ref |-> "fresh", marker |-> t.marker /\ forceKeepsExtra]

\* What a download that raises can leave behind.
Interrupted(t) ==
    [ref : {t.ref, "partial"},
     marker : {t.marker} \cup (IF forceKeepsExtra THEN {} ELSE {FALSE})]

\* download_pysteps_data(args.dest_dir, force=True) returns.
DownloadOk ==
    /\ pc = "DOWNLOADING"
    /\ tree' = [tree EXCEPT ![DownloadDir] = Fetched(@)]
    /\ result' = [result EXCEPT !["DOWNLOADING"] = "ok"]
    /\ acqFailedSince' = [acqFailedSince EXCEPT ![DownloadDir] = FALSE]
    /\ Goto(NextStep("DOWNLOADING"), ErrorExit)
    /\ UNCHANGED <<argv, parsed, dest, config, forceKeepsExtra, run,
                   treeAtStart, configAtStart, prev>>

\* download_pysteps_data(args.dest_dir, force=True) raises.
DownloadFail ==
    /\ pc = "DOWNLOADING"
    /\ \E t \in Interrupted(tree[DownloadDir]) :
          tree' = [tree EXCEPT ![DownloadDir] = t]
    /\ result' = [result EXCEPT !["DOWNLOADING"] = "failed"]
    /\ acqFailedSince' = [acqFailedSince EXCEPT ![DownloadDir] = TRUE]
    /\ Goto(OnDownloadError, ErrorExit)
    /\ UNCHANGED <<argv, parsed, dest, config, forceKeepsExtra, run,
                   treeAtStart, configAtStart, prev>>

\* create_default_pystepsrc(args.dest_dir) returns.
ConfigOk ==
    /\ pc = "CONFIGURING"
    /\ config' = ConfigDir
    /\ result' = [result EXCEPT !["CONFIGURING"] = "ok"]
    /\ Goto(NextStep("CONFIGURING"), ErrorExit)
    /\ UNCHANGED <<argv, parsed, dest, tree, forceKeepsExtra, run,
                   treeAtStart, configAtStart, prev, acqFailedSince>>

\* create_default_pystepsrc(args.dest_dir) raises.
ConfigFail ==
    /\ pc = "CONFIGURING"
    /\ config' \in {config, "corrupt"}
    /\ result' = [result EXCEPT !["CONFIGURING"] = "failed"]
    /\ Goto(OnConfigError, ErrorExit)
    /\ UNCHANGED <<argv, parsed, dest, tree, forceKeepsExtra, run,
                   treeAtStart, configAtStart, prev, acqFailedSince>>

\* What a directory can hold when the next process starts: between two
\* runs the environment may drop an unrelated file into it or let its copy
\* of the dataset go stale; it removes nothing.
EnvChanged(t) ==
    [ref : {t.ref} \cup (IF t.ref = "fresh" THEN {"stale"} ELSE {}),
     marker : {t.marker, TRUE}]

\* The directories the next process can find.
EnvTrees(tr) == {f \in [Paths -> Trees] : \A p \in Paths : f[p] \in EnvChanged(tr[p])}

\* The script is started again after the previous process has exited.
Invoke ==
    /\ pc \in Terminal
    /\ run < MaxRuns
    /\ run' = run + 1
    /\ argv' = << >>
    /\ parsed' = "none"
    /\ tree' \in EnvTrees(tree)
    /\ pc' = "START"
    /\ dest' = ""
    /\ exitStatus' = << >>
    /\ calls' = NoCalls
    /\ result' = NoResults
    /\ treeAtStart' = tree'
    /\ configAtStart' = config
    /\ prev' = IF pc = "DONE" THEN <<dest, tree[dest].ref, config>> ELSE << >>
    /\ UNCHANGED <<config, forceKeepsExtra, acqFailedSince>>

Next == Parse \/ DownloadOk \/ DownloadFail \/ ConfigOk \/ ConfigFail \/ Invoke

Spec == Init /\ [][Next]_vars

\* ================================================================= claims
BothSucceeded == result["DOWNLOADING"] = "ok" /\ result["CONFIGURING"] = "ok"
Exited == exitStatus # << >>

\* An argument list that is neither a help request nor exactly one
\* positional destination path.
IsUsageError(args) ==
    /\ \A i \in 1..Len(args) : args[i] # "-h"
    /\ ~(Len(args) = 1 /\ args[1] \in Paths)

\* C1: the configuration-write step is never started before the download
\* step of the same run has been called and has returned normally.
C1_ConfigAfterDownload ==
    (pc = "CONFIGURING" \/ calls["CONFIGURING"] > 0)
        => (calls["DOWNLOADING"] = 1 /\ result["DOWNLOADING"] = "ok")

C1_Witness == pc = "CONFIGURING" /\ result["DOWNLOADING"] = "ok"

\* C2: when the download of a run fails, the configuration record is the
\* one the run found at its start, and the configuration step is not called.
C2_FailedDownloadKeepsConfig ==
    result["DOWNLOADING"] = "failed"
        => (config = configAtStart /\ calls["CONFIGURING"] = 0)

C2_Witness ==
    /\ result["DOWNLOADING"] = "failed"
    /\ pc = "FAILED"
    /\ configAtStart \in Paths
    /\ dest # configAtStart

\* C3: a run that reaches DONE has exit status 0, the dataset is complete
\* under the destination it parsed, and the configuration record names that
\* same destination; both steps returned normally.
C3_SuccessHasDatasetAndConfig ==
    pc = "DONE"
        => /\ exitStatus = <<SuccessExit>>
           /\ dest \in Paths
           /\ Complete(tree[dest])
           /\ config = dest
           /\ BothSucceeded

C3_Witness ==
    /\ pc = "DONE"
    /\ ~Complete(treeAtStart[dest])
    /\ configAtStart # dest

\* C4 as stated: the exit status is zero exactly when both steps succeeded.
C4_ZeroIffBothSucceeded ==
    Exited => (exitStatus = <<SuccessExit>> <=> BothSucceeded)

\* C4 as amended: the exit status is zero exactly when both steps succeeded
\* or the argument list asked for the help text (then neither step is
\* called); a failed download, a failed configuration write and a usage
\* error all give a non-zero status.
C4_ZeroIffBothSucceededOrHelp ==
    Exited =>
        /\ exitStatus = <<SuccessExit>> <=> (BothSucceeded \/ parsed = "help")
        /\ parsed = "help" => calls = NoCalls
        /\ (\E s \in Steps : result[s] = "failed") => exitStatus = <<ErrorExit>>
        /\ parsed = "error" => exitStatus = <<UsageExit>>

C4_Witness ==
    /\ exitStatus = <<SuccessExit>>
    /\ parsed = "help"
    /\ ~BothSucceeded

\* C6: a usage error ends the run in FAILED with a non-zero status, no step
\* having been called and the directories and the configuration record
\* being what the run found at its start.
C6_UsageErrorNoSideEffects ==
    (pc # "START" /\ IsUsageError(argv))
        => /\ pc = "FAILED"
           /\ Exited /\ exitStatus # <<SuccessExit>>
           /\ calls = NoCalls
           /\ result = NoResults
           /\ tree = treeAtStart
           /\ config = configAtStart

C6_Witness == pc = "FAILED" /\ argv = << >> /\ run > 1 /\ config \in Paths

\* The transitions of the state machine C7 names; a new process starting
\* after the previous one has ended is no transition of a run.
MachineStep ==
    \/ pc = "START" /\ pc' = "DOWNLOADING"
    \/ pc = "DOWNLOADING" /\ pc' = "CONFIGURING" /\ result'["DOWNLOADING"] = "ok"
    \/ pc = "DOWNLOADING" /\ pc' = "FAILED" /\ result'["DOWNLOADING"] = "failed"
    \/ pc = "CONFIGURING" /\ pc' = "DONE" /\ result'["CONFIGURING"] = "ok"
    \/ pc = "CONFIGURING" /\ pc' = "FAILED" /\ result'["CONFIGURING"] = "failed"
    \/ pc \in Terminal /\ pc' = "START" /\ run' = run + 1

\* The two ways parse_args itself ends a run.
ParseExitStep ==
    \/ pc = "START" /\ pc' = "FAILED" /\ parsed' = "error"
    \/ pc = "START" /\ pc' = "HELP" /\ parsed' = "help"

\* C7 as stated: every step of a run is one of START -> DOWNLOADING ->
\* CONFIGURING -> DONE or a failure of DOWNLOADING or CONFIGURING going to
\* FAILED; nothing leaves DONE or FAILED.
C7_ExactlyTheMachine == [][MachineStep]_vars

\* C7 as amended: the same machine, with the two further transitions by
\* which argument parsing ends a run from START: to FAILED on a usage
\* error and to a zero-status help exit.
C7_MachineWithParseExits == [][MachineStep \/ ParseExitStep]_vars

C7_Witness == pc = "FAILED" /\ parsed = "error" /\ calls = NoCalls

\* C8: within a run each step is called at most once, and once a step has
\* failed the run is in FAILED with no later step called.
C8_NoRetry ==
    /\ \A s \in Steps : calls[s] <= 1
    /\ result["DOWNLOADING"] = "failed" => (pc = "FAILED" /\ calls["CONFIGURING"] = 0)
    /\ result["CONFIGURING"] = "failed" => pc = "FAILED"

C8_Witness ==
    /\ result["CONFIGURING"] = "failed"
    /\ calls = [s \in Steps |-> 1]

C10_ConfigImpliesDataset ==
    (pc \in Terminal /\ config \in Paths) => Complete(tree[config])

\* C10 as amended: whenever no run is in progress, the configuration
\* record names a directory and no download into that directory has failed
\* since the last one that succeeded, the dataset under it is complete.
C10_ConfigImpliesDatasetUnlessFailedSince ==
    (pc \in Terminal /\ config \in Paths /\ ~acqFailedSince[config])
        => Complete(tree[config])

C10_Witness ==
    /\ pc = "FAILED"
    /\ run > 1
    /\ config = dest
    /\ result["CONFIGURING"] = "failed"
    /\ configAtStart = dest

====
